---- MODULE Spec2Model ----
(***************************************************************************)
(* Model of the evaluation orchestration engine of LLM_EVAL_Backend.       *)
(*                                                                         *)
(* Agent.Run (src/agent/agent.go) is modelled as a state machine whose    *)
(* steps are cut at the calls it makes to its collaborators: the          *)
(* credential exchange (knovvu.GetKnovvuToken), the generation backend    *)
(* (LLM.GenerateContentREST), the respondent transport                    *)
(* (knovvu.SendKnovvuMessage) and the judge (LLM.GenerateJudgmentREST).   *)
(* Every call and its outcome is recorded in the trace variable `calls`.  *)
(***************************************************************************)
EXTENDS Integers, Sequences, FiniteSets, TLC

(***************************************************************************)
(* Bounds of the model.                                                    *)
(***************************************************************************)
\* largest turn budget (State.MaxTurns) a caller passes to NewAgent
MaxBudget == 3

(***************************************************************************)
(* Values exchanged with the collaborators.                                *)
(***************************************************************************)
NIL == "nil"

HeroCard == "application/vnd.microsoft.card.hero"

\* utterances the generation backend may propose (LLMOutput.NextMessage)
Messages == {"", " ", "hello"}

\* replies of the generation backend that GenerateContentREST hands to Run
LLMOutputs == [NextMessage : Messages, Fulfilled : BOOLEAN]

\* a hero card with a prompt and two buttons
PickOneCard ==
    [isMap |-> TRUE, contentType |-> HeroCard, contentOk |-> TRUE,
     text |-> "Pick one",
     buttons |-> << [isMap |-> TRUE, title |-> "A", value |-> "a"],
                    [isMap |-> TRUE, title |-> "B", value |-> "b"] >>]

\* parsed respondent replies (knovvu.KnovvuResponse) SendKnovvuMessage returns
KnovvuResponses ==
    { [Text |-> "VA reply", Attachments |-> <<>>],
      [Text |-> "",         Attachments |-> <<>>],
      [Text |-> "",         Attachments |-> << PickOneCard >>] }

\* verdict labels of a JudgmentResult
Judgments == {"Pass", "Fail", "Human_review"}

(***************************************************************************)
(* Pure helpers of agent.go.                                               *)
(***************************************************************************)
RECURSIVE Join(_, _)
\* strings.Join
Join(lines, sep) ==
    IF lines = <<>> THEN ""
    ELSE IF Len(lines) = 1 THEN lines[1]
    ELSE lines[1] \o sep \o Join(Tail(lines), sep)

RECURSIVE ButtonLines(_)
\* the inner loop over the buttons of a hero card: non-map buttons are skipped
ButtonLines(buttons) ==
    IF buttons = <<>> THEN <<>>
    ELSE LET btn == Head(buttons)
             rest == ButtonLines(Tail(buttons))
         IN  IF btn.isMap
             THEN << "  - " \o btn.title \o " (value: " \o btn.value \o ")" >> \o rest
             ELSE rest

RECURSIVE extractQuickRepliesFromAttachments(_)
\* the first usable hero card is flattened into a prompt line and option lines
extractQuickRepliesFromAttachments(attachments) ==
    IF attachments = <<>> THEN ""
    ELSE LET att == Head(attachments)
         IN  IF att.isMap /\ att.contentType = HeroCard /\ att.contentOk
                /\ Len(att.buttons) > 0
             THEN (IF att.text # "" THEN "Prompt: " \o att.text \o "\n" ELSE "")
                  \o "Options:\n" \o Join(ButtonLines(att.buttons), "\n")
             ELSE extractQuickRepliesFromAttachments(Tail(attachments))

\* a mutant of VaResponse: the attachments are not looked at
VaResponseTextOnly(knovvuResp) ==
    IF knovvuResp.Text # "" THEN knovvuResp.Text ELSE "No response text found."

\* the reply text recorded for a turn (agent.go, vaResponse)
VaResponse(knovvuResp) ==
    IF knovvuResp.Text # "" THEN knovvuResp.Text
    ELSE IF Len(knovvuResp.Attachments) > 0
              /\ extractQuickRepliesFromAttachments(knovvuResp.Attachments) # ""
         THEN extractQuickRepliesFromAttachments(knovvuResp.Attachments)
         ELSE "No response text found."

\* int16 increment (CurrentState.TurnCount is an int16)
Inc16(n) == IF n + 1 > 32767 THEN -32768 ELSE n + 1

(***************************************************************************)
(* State of one Agent.Run.                                                 *)
(***************************************************************************)
VARIABLES
    pc,           \* position of Run: start, loop, generate, send, check,
                  \* judge, done (returned without error), failed (returned an error)
    State,        \* a.State : llm.CurrentState
    userMessage,  \* the utterance of the current turn (llmResponse.NextMessage)
    ret,          \* what Run returned: (state, judgement, err)
    calls,        \* trace of the calls Run made to its collaborators
    knovvuToken,     \* the local variable knovvuToken
    conversationID,  \* the local variable conversationID
    llmVariant       \* which client a.LLM is: "gemini", "openai" or "cohere"

runVars == << pc, State, userMessage, ret, calls, knovvuToken, conversationID,
              llmVariant >>

(***************************************************************************)
(* State of one Agent.ParallelRun call.                                    *)
(***************************************************************************)
VARIABLES
    scenarios,         \* input: the scenario texts
    expectedOutcomes,  \* input: the expected outcomes
    parentState,       \* a.State of the agent ParallelRun is called on
    mainPc,            \* position of ParallelRun: entry, start_workers, send_jobs,
                       \* collect, returned
    started,           \* number of worker goroutines started so far
    nextJob,           \* loop variable of the "send jobs" loop (1-based)
    jobs,              \* the buffered channel of scenario indices
    jobsClosed,        \* close(jobs) has been executed
    resCh,             \* the buffered channel of results
    waiting,           \* number of worker goroutines blocked in "range jobs"
    subAgents,         \* the sub-agents whose Run is executing, by scenario index
    exited,            \* number of worker goroutines that have returned
    results,           \* results : []*llm.CurrentState
    errs,              \* errs : []error
    collected,         \* loop variable of the "collect results" loop
    parRet,            \* what ParallelRun returned
    runLog,            \* per input position: the runs started for it and what they returned
    writes             \* per input position: how often results[i], errs[i] were assigned

parVars == << scenarios, expectedOutcomes, parentState, mainPc, started, nextJob, jobs,
              jobsClosed, resCh, waiting, subAgents, exited, results, errs, collected,
              parRet, runLog, writes >>

(***************************************************************************)
(* State of the background goroutine a handler starts to call Run.        *)
(***************************************************************************)
VARIABLES
    handler,         \* which handler started the goroutine
    hPc,             \* position of the goroutine: idle, run, status, done, panic
    process,         \* the server process: "up", or "down" after a panic
    scenarioStatus,  \* the status the goroutine will store for the scenario
    runStatus,       \* the status the goroutine will store for the test run
    maxInteractions, \* the project's stored max_interactions
    storedStatus,    \* the status column of the scenario's row
    stopped          \* StopScenarioHandler was served while the run was in progress

hVars == << handler, hPc, process, scenarioStatus, runStatus, maxInteractions,
            storedStatus, stopped >>

(***************************************************************************)
(* State of one GenerateContentREST call of a generation client.          *)
(***************************************************************************)
VARIABLES
    client,      \* which client: "gemini", "cohere" or "openai"
    cPc,         \* position of the call: idle, loop, do, classify, after, returned
    attempt,     \* the loop variable attempt
    resp,        \* the variable resp: NoResp or the response of the last Do
    doErr,       \* the variable err of the last Do: NIL or its message
    lastErr,     \* the variable lastErr
    ctxDone,     \* the deadline of ctx has passed
    requests,    \* what the backend answered to each request that reached it
    doCalls,     \* number of calls of client.Do
    cRet         \* what the call returned

cVars == << client, cPc, attempt, resp, doErr, lastErr, ctxDone, requests, doCalls,
           cRet >>

(***************************************************************************)
(* State of one call of the Knovvu client, and of the caller after it.    *)
(***************************************************************************)
VARIABLES
    kCall,       \* which function: "GetKnovvuToken" or "SendKnovvuMessage"
    kPc,         \* position of the call: idle, entry, do, response, returned, done
    kConfig,     \* what .env holds: whether it loads, client_id, client_secret
    kText,       \* the argument text of SendKnovvuMessage
    kReply,      \* what client.Do returned
    kSent,       \* the requests handed to client.Do
    kRet,        \* what the call returned
    kRun         \* what Agent.Run made of the call's result

kVars == << kCall, kPc, kConfig, kText, kReply, kSent, kRet, kRun >>

vars == << runVars, parVars, hVars, cVars, kVars >>

\* what a step of Agent.Run leaves alone
outsideRun == << parVars, hVars, cVars, kVars >>

\* what a step of Agent.ParallelRun leaves alone
outsideParallelRun == << runVars, hVars, cVars, kVars >>

\* what a step of a handler's goroutine leaves alone, Run's own steps apart
outsideHandler == << runVars, parVars, cVars, kVars >>

\* what a step of a generation client leaves alone
outsideClient == << runVars, parVars, hVars, kVars >>

\* what a step of the Knovvu client leaves alone
outsideKnovvu == << runVars, parVars, hVars, cVars >>

\* tokens GetKnovvuToken may return
Tokens == {"token-1", "token-2"}

\* identifiers uuid.New() may give
UUIDs == {"uuid-a", "uuid-b"}

\* the token and conversation id of a call that carries none
NoSession == [token |-> "", conversationID |-> ""]

\* a mutant of SendSession: each turn talks in a conversation of its own
SendSessionPerTurn ==
    [token |-> knovvuToken,
     conversationID |-> IF State.TurnCount % 2 = 0 THEN "uuid-a" ELSE "uuid-b"]

\* the token and conversation id Run hands to SendKnovvuMessage
SendSession == [token |-> knovvuToken, conversationID |-> conversationID]

\* a mutant of LLMInput: the request is built before the turn is counted
LLMInputBeforeIncrement(s) ==
    [Version |-> "2.0", CurrentState |-> [s EXCEPT !.TurnCount = @ - 1]]

\* the request Run builds for GenerateContentREST: a copy of a.State
LLMInput(s) == [Version |-> "2.0", CurrentState |-> s]

\* the request of a call that is no generation call
NoInput == [Version |-> ""]

\* one entry of the trace
Call(op, ok, turn, fulfilled, text, conv) ==
    [op |-> op, ok |-> ok, turn |-> turn, fulfilled |-> fulfilled,
     text |-> text, conv |-> conv,
     session |-> IF op = "send" THEN SendSession ELSE NoSession,
     input |-> IF op = "generate" THEN LLMInput(State) ELSE NoInput]

\* the state a caller hands to NewAgent (TurnCount 0, empty History, not fulfilled)
InitialState(maxTurns) ==
    [History |-> <<>>, TurnCount |-> 0, MaxTurns |-> maxTurns, Fulfilled |-> FALSE]

NoReturn == [state |-> "none", judgement |-> "none", err |-> "none"]

\* every error return of Run is (nil, nil, err)
ErrorReturn(err) == [state |-> NIL, judgement |-> NIL, err |-> err]

\* the successful return (&a.State, judgeReslts, nil)
OkReturn(j) == [state |-> "&a.State", judgement |-> j, err |-> NIL]

\* ParallelRun has not returned
NoParallelReturn == [returned |-> FALSE]

\* no ParallelRun call is in progress
ParallelRunIdle ==
    /\ scenarios = <<>>
    /\ expectedOutcomes = <<>>
    /\ parentState = InitialState(0)
    /\ mainPc = "idle"
    /\ started = 0
    /\ nextJob = 1
    /\ jobs = <<>>
    /\ jobsClosed = FALSE
    /\ resCh = <<>>
    /\ waiting = 0
    /\ subAgents = <<>>
    /\ exited = 0
    /\ results = <<>>
    /\ errs = <<>>
    /\ collected = 0
    /\ parRet = NoParallelReturn
    /\ runLog = <<>>
    /\ writes = <<>>

\* no single Run is being followed step by step
RunIdle ==
    /\ pc = "idle"
    /\ State = InitialState(0)
    /\ userMessage = ""
    /\ ret = NoReturn
    /\ calls = <<>>
    /\ knovvuToken = ""
    /\ conversationID = ""
    /\ llmVariant = "none"

\* the implementations of the interface LLM
Variants == {"gemini", "openai", "cohere"}

\* NewAgent followed by the entry of Run
RunInit ==
    /\ pc = "start"
    /\ \E m \in 0..MaxBudget : State = InitialState(m)
    /\ userMessage = ""
    /\ ret = NoReturn
    /\ calls = <<>>
    /\ knovvuToken = ""
    /\ conversationID = ""
    /\ llmVariant \in Variants

\* no handler goroutine is being followed
HandlerIdle ==
    /\ handler = "none"
    /\ hPc = "idle"
    /\ process = "up"
    /\ scenarioStatus = "none"
    /\ runStatus = "none"
    /\ maxInteractions = 0
    /\ storedStatus = "none"
    /\ stopped = FALSE

\* the nil *http.Response
NoResp == [nil |-> TRUE]

\* the call has not returned
NoResult == [ok |-> FALSE, err |-> NIL, wraps |-> NIL]

\* no generation call is being followed
ClientIdle ==
    /\ client = "none"
    /\ cPc = "idle"
    /\ attempt = 0
    /\ resp = NoResp
    /\ doErr = NIL
    /\ lastErr = NIL
    /\ ctxDone = FALSE
    /\ requests = <<>>
    /\ doCalls = 0
    /\ cRet = NoResult

\* no reply of the HTTP client yet
NoReply == [none |-> TRUE]

\* the Knovvu call has not returned
NoKnovvuResult == [returned |-> FALSE]

\* the caller has not looked at the result
NoRunOutcome == [seen |-> FALSE]

\* no Knovvu call is being followed
KnovvuIdle ==
    /\ kCall = "none"
    /\ kPc = "idle"
    /\ kConfig = [loads |-> TRUE, client_id |-> "id", client_secret |-> "secret"]
    /\ kText = ""
    /\ kReply = NoReply
    /\ kSent = <<>>
    /\ kRet = NoKnovvuResult
    /\ kRun = NoRunOutcome

Init == RunInit /\ ParallelRunIdle /\ HandlerIdle /\ ClientIdle /\ KnovvuIdle

(***************************************************************************)
(* Steps of Agent.Run.                                                     *)
(***************************************************************************)
\* knovvu.GetKnovvuToken returns a token, and uuid.New() gives the conversation id
GetKnovvuTokenOk ==
    /\ pc = "start"
    /\ calls' = Append(calls, Call("token", TRUE, State.TurnCount, FALSE, "", <<>>))
    /\ knovvuToken' \in Tokens
    /\ conversationID' \in UUIDs
    /\ UNCHANGED llmVariant
    /\ pc' = "loop"
    /\ UNCHANGED << State, userMessage, ret >>
    /\ UNCHANGED outsideRun

\* a credential error that is ignored: the loop starts without a token
GetKnovvuTokenFailIgnored ==
    /\ pc = "start"
    /\ calls' = Append(calls, Call("token", FALSE, State.TurnCount, FALSE, "", <<>>))
    /\ pc' = "loop"
    /\ UNCHANGED << State, userMessage, ret >>
    /\ UNCHANGED << knovvuToken, conversationID, llmVariant >>
    /\ UNCHANGED outsideRun

\* knovvu.GetKnovvuToken fails: Run returns before the loop
GetKnovvuTokenFail ==
    /\ pc = "start"
    /\ calls' = Append(calls, Call("token", FALSE, State.TurnCount, FALSE, "", <<>>))
    /\ ret' = ErrorReturn("failed to get Knovvu token")
    /\ pc' = "failed"
    /\ UNCHANGED << State, userMessage >>
    /\ UNCHANGED << knovvuToken, conversationID, llmVariant >>
    /\ UNCHANGED outsideRun

\* the loop condition
LoopCondOffByOne(s) == s.TurnCount <= s.MaxTurns /\ ~s.Fulfilled
LoopCondShort(s) == s.TurnCount + 1 < s.MaxTurns /\ ~s.Fulfilled
LoopCond(s) == s.TurnCount < s.MaxTurns /\ ~s.Fulfilled

\* the loop test and, when it passes, the start of a turn (TurnCount++)
LoopTest ==
    /\ pc = "loop"
    /\ IF LoopCond(State)
       THEN /\ State' = [State EXCEPT !.TurnCount = Inc16(@)]
            /\ pc' = "generate"
       ELSE /\ State' = State
            /\ pc' = "judge"
    /\ UNCHANGED << userMessage, ret, calls >>
    /\ UNCHANGED << knovvuToken, conversationID, llmVariant >>
    /\ UNCHANGED outsideRun

\* the fulfilled flag of the reply is adopted into the run state
AdoptFulfilledNever(s, out) == s
AdoptFulfilled(s, out) == [s EXCEPT !.Fulfilled = out.Fulfilled]

\* an utterance is sent only when it is not the empty string
ShouldSendAlways(msg) == TRUE
ShouldSend(msg) == msg # ""

\* LLM.GenerateContentREST returns a reply
GenerateContentOk ==
    /\ pc = "generate"
    /\ \E out \in LLMOutputs :
         /\ calls' = Append(calls, Call("generate", TRUE, State.TurnCount,
                                        out.Fulfilled, out.NextMessage, State.History))
         /\ State' = AdoptFulfilled(State, out)
         /\ userMessage' = out.NextMessage
         /\ pc' = IF ShouldSend(out.NextMessage) THEN "send" ELSE "check"
    /\ UNCHANGED ret
    /\ UNCHANGED << knovvuToken, conversationID, llmVariant >>
    /\ UNCHANGED outsideRun

\* a generation error that is swallowed: the turn goes on with the old state
GenerateContentFailContinues ==
    /\ pc = "generate"
    /\ calls' = Append(calls, Call("generate", FALSE, State.TurnCount, FALSE, "", State.History))
    /\ userMessage' = ""
    /\ pc' = "check"
    /\ UNCHANGED << State, ret >>
    /\ UNCHANGED << knovvuToken, conversationID, llmVariant >>
    /\ UNCHANGED outsideRun

\* LLM.GenerateContentREST fails: Run returns the error
GenerateContentFail ==
    /\ pc = "generate"
    /\ calls' = Append(calls, Call("generate", FALSE, State.TurnCount, FALSE, "", State.History))
    /\ ret' = ErrorReturn("failed to generate content from LLM")
    /\ pc' = "failed"
    /\ UNCHANGED << State, userMessage >>
    /\ UNCHANGED << knovvuToken, conversationID, llmVariant >>
    /\ UNCHANGED outsideRun

\* the Turn record appended for the current turn
HistoryItemByPosition(s, user, assistant) ==
    [Turn |-> Len(s.History) + 1, User |-> user, Assistant |-> assistant]
HistoryItemBeforeIncrement(s, user, assistant) ==
    [Turn |-> s.TurnCount - 1, User |-> user, Assistant |-> assistant]
HistoryItem(s, user, assistant) ==
    [Turn |-> s.TurnCount, User |-> user, Assistant |-> assistant]

\* knovvu.SendKnovvuMessage returns a parsed reply: the Turn record is appended
SendKnovvuMessageOk ==
    /\ pc = "send"
    /\ \E knovvuResp \in KnovvuResponses :
         /\ calls' = Append(calls, Call("send", TRUE, State.TurnCount, State.Fulfilled,
                                        userMessage, State.History))
         /\ State' = [State EXCEPT !.History =
                         Append(@, HistoryItem(State, userMessage, VaResponse(knovvuResp)))]
    /\ pc' = "check"
    /\ UNCHANGED << userMessage, ret >>
    /\ UNCHANGED << knovvuToken, conversationID, llmVariant >>
    /\ UNCHANGED outsideRun

\* knovvu.SendKnovvuMessage fails: Run returns ErrInternal
SendKnovvuMessageFail ==
    /\ pc = "send"
    /\ calls' = Append(calls, Call("send", FALSE, State.TurnCount, State.Fulfilled,
                                   userMessage, State.History))
    /\ ret' = ErrorReturn("failed to send message to Knovvu")
    /\ pc' = "failed"
    /\ UNCHANGED << State, userMessage >>
    /\ UNCHANGED << knovvuToken, conversationID, llmVariant >>
    /\ UNCHANGED outsideRun

\* the break at the end of the loop body
BreakAlways(s) == TRUE
BreakOnFulfilled(s) == s.Fulfilled

\* a loop that tests only the budget at the end of a turn
CheckFulfilledBudgetOnly ==
    /\ pc = "check"
    /\ IF State.TurnCount < State.MaxTurns
       THEN /\ State' = [State EXCEPT !.TurnCount = Inc16(@)]
            /\ pc' = "generate"
       ELSE /\ State' = State
            /\ pc' = "judge"
    /\ UNCHANGED << userMessage, ret, calls >>
    /\ UNCHANGED << knovvuToken, conversationID, llmVariant >>
    /\ UNCHANGED outsideRun

\* end of the loop body: leave the loop when fulfilled, else test the loop again
CheckFulfilled ==
    /\ pc = "check"
    /\ pc' = IF BreakOnFulfilled(State) THEN "judge" ELSE "loop"
    /\ UNCHANGED << State, userMessage, ret, calls >>
    /\ UNCHANGED << knovvuToken, conversationID, llmVariant >>
    /\ UNCHANGED outsideRun

\* the conversation handed to the judge
JudgeConversation(s) == s.History

\* the variant's GenerateJudgmentREST calls a backend
JudgmentImplemented(v) == v = "cohere"

\* GenerateJudgmentREST of a variant that only returns "not implemented"
GenerateJudgmentNotImplemented ==
    /\ pc = "judge"
    /\ ~JudgmentImplemented(llmVariant)
    /\ calls' = Append(calls, Call("judge", FALSE, State.TurnCount, State.Fulfilled,
                                   "not implemented", JudgeConversation(State)))
    /\ ret' = ErrorReturn("failed to generate Judgement Results from LLM")
    /\ pc' = "failed"
    /\ UNCHANGED << State, userMessage >>
    /\ UNCHANGED << knovvuToken, conversationID, llmVariant >>
    /\ UNCHANGED outsideRun

\* LLM.GenerateJudgmentREST returns a judgment: Run returns (&a.State, judgment, nil)
GenerateJudgmentOk ==
    /\ pc = "judge"
    /\ JudgmentImplemented(llmVariant)
    /\ \E j \in Judgments :
         /\ calls' = Append(calls, Call("judge", TRUE, State.TurnCount, State.Fulfilled,
                                        "", JudgeConversation(State)))
         /\ ret' = OkReturn(j)
    /\ pc' = "done"
    /\ UNCHANGED << State, userMessage >>
    /\ UNCHANGED << knovvuToken, conversationID, llmVariant >>
    /\ UNCHANGED outsideRun

\* LLM.GenerateJudgmentREST fails: Run returns the error
GenerateJudgmentFail ==
    /\ pc = "judge"
    /\ JudgmentImplemented(llmVariant)
    /\ calls' = Append(calls, Call("judge", FALSE, State.TurnCount, State.Fulfilled,
                                   "", JudgeConversation(State)))
    /\ ret' = ErrorReturn("failed to generate Judgement Results from LLM")
    /\ pc' = "failed"
    /\ UNCHANGED << State, userMessage >>
    /\ UNCHANGED << knovvuToken, conversationID, llmVariant >>
    /\ UNCHANGED outsideRun

Next ==
    \/ GetKnovvuTokenOk
    \/ GetKnovvuTokenFail
    \/ LoopTest
    \/ GenerateContentOk
    \/ GenerateContentFail
    \/ SendKnovvuMessageOk
    \/ SendKnovvuMessageFail
    \/ CheckFulfilled
    \/ GenerateJudgmentOk
    \/ GenerateJudgmentFail
    \/ GenerateJudgmentNotImplemented

Spec == Init /\ [][Next]_vars

(***************************************************************************)
(* Agent.ParallelRun: a pool of maxParallel worker goroutines takes        *)
(* scenario indices from the channel `jobs`, runs one sub-agent per index  *)
(* and hands the outcome to the channel `resCh`; the calling goroutine     *)
(* stores each outcome at its index.  The worker goroutines run the same   *)
(* closure and carry no identity, so the pool is kept as the number of     *)
(* workers blocked on `jobs`, the sub-agents being run and the number of   *)
(* workers that have returned.  A sub-agent's Run is taken as a whole: it  *)
(* returns (&State, judgment, nil) or (nil, nil, err), as OkReturn and     *)
(* ErrorReturn say, and which of the two depends on the scenario.          *)
(***************************************************************************)
\* most scenarios handed to one ParallelRun call
MaxScenarios == 6

\* number of worker goroutines
maxParallel == 5

\* turn budget of every sub-agent
ParallelMaxTurns == 10

\* capacity of the channels jobs and resCh: make(chan ..., len(scenarios))
ChanCap == Len(scenarios)

\* the states the agent ParallelRun is called on may be in
ParentStates ==
    { InitialState(0),
      [History |-> << [Turn |-> 1, User |-> "hello", Assistant |-> "VA reply"] >>,
       TurnCount |-> 1, MaxTurns |-> 5, Fulfilled |-> TRUE] }

\* scenario texts: the run of a "failing" scenario returns an error
ScenarioText(i, failing) == << IF i \in failing THEN "failing" ELSE "passing", i >>

\* the input lists of n scenarios: none failing, the second failing, the first
\* and the last failing
ScenarioLists(n) ==
    { [i \in 1..n |-> ScenarioText(i, failing)] : failing \in { {}, {2}, {1, n} } }

\* llm.CurrentState built by a worker for the sub-agent of one scenario
initStateFromParent(parent) == parent
initState(parent) ==
    [History |-> <<>>, TurnCount |-> 0, MaxTurns |-> ParallelMaxTurns, Fulfilled |-> FALSE]

ParallelRunInit ==
    /\ \E n \in 0..MaxScenarios :
          /\ scenarios \in ScenarioLists(n)
          /\ \E m \in {n, n + 1} : expectedOutcomes = [i \in 1..m |-> << "outcome", i >>]
    /\ parentState \in ParentStates
    /\ mainPc = "entry"
    /\ started = 0
    /\ nextJob = 1
    /\ jobs = <<>>
    /\ jobsClosed = FALSE
    /\ resCh = <<>>
    /\ waiting = 0
    /\ subAgents = <<>>
    /\ exited = 0
    /\ results = <<>>
    /\ errs = <<>>
    /\ collected = 0
    /\ parRet = NoParallelReturn
    /\ runLog = [i \in 1..Len(scenarios) |-> <<>>]
    /\ writes = [i \in 1..Len(scenarios) |-> 0]

\* the nil *llm.CurrentState
NilState == [nil |-> TRUE]

\* the length check at entry
LengthsDifferNever(s, e) == FALSE
LengthsDiffer(s, e) == Len(s) # Len(e)

\* the two lists differ in length: ParallelRun returns an error at once
ParallelRunMismatch ==
    /\ mainPc = "entry"
    /\ LengthsDiffer(scenarios, expectedOutcomes)
    /\ parRet' = [results |-> <<>>,
                  errs |-> << "scenarios and expectedOutcomes must have the same length" >>]
    /\ mainPc' = "returned"
    /\ UNCHANGED << writes, scenarios, expectedOutcomes, parentState, started, nextJob, jobs,
                    jobsClosed, resCh, waiting, subAgents, exited, results, errs,
                    collected, runLog >>
    /\ UNCHANGED outsideParallelRun

\* results, errs and the two channels are made
ParallelRunSetup ==
    /\ mainPc = "entry"
    /\ ~LengthsDiffer(scenarios, expectedOutcomes)
    /\ results' = [i \in 1..Len(scenarios) |-> NilState]
    /\ errs' = [i \in 1..Len(scenarios) |-> NIL]
    /\ mainPc' = "start_workers"
    /\ UNCHANGED << writes, scenarios, expectedOutcomes, parentState, started, nextJob, jobs,
                    jobsClosed, resCh, waiting, subAgents, exited, collected, parRet,
                    runLog >>
    /\ UNCHANGED outsideParallelRun

\* number of goroutines the loop "go worker()" starts
PoolSizeUnbounded == Len(scenarios) + 1
PoolSize == maxParallel

\* one iteration of the loop "go worker()": the new worker blocks on jobs
StartWorker ==
    /\ mainPc = "start_workers"
    /\ started < PoolSize
    /\ waiting' = waiting + 1
    /\ started' = started + 1
    /\ mainPc' = IF started + 1 < PoolSize THEN "start_workers" ELSE "send_jobs"
    /\ UNCHANGED << writes, scenarios, expectedOutcomes, parentState, nextJob, jobs, jobsClosed,
                    resCh, subAgents, exited, results, errs, collected, parRet, runLog >>
    /\ UNCHANGED outsideParallelRun

\* one iteration of the loop "jobs <- i"
SendJob ==
    /\ mainPc = "send_jobs"
    /\ nextJob <= Len(scenarios)
    /\ Len(jobs) < ChanCap
    /\ jobs' = Append(jobs, nextJob)
    /\ nextJob' = nextJob + 1
    /\ UNCHANGED << writes, scenarios, expectedOutcomes, parentState, mainPc, started, jobsClosed,
                    resCh, waiting, subAgents, exited, results, errs, collected, parRet,
                    runLog >>
    /\ UNCHANGED outsideParallelRun

\* close(jobs) after the last index has been sent
CloseJobs ==
    /\ mainPc = "send_jobs"
    /\ nextJob > Len(scenarios)
    /\ jobsClosed' = TRUE
    /\ mainPc' = "collect"
    /\ UNCHANGED << writes, scenarios, expectedOutcomes, parentState, started, nextJob, jobs,
                    resCh, waiting, subAgents, exited, results, errs, collected, parRet,
                    runLog >>
    /\ UNCHANGED outsideParallelRun

\* the sub-agent a worker builds for the scenario at idx (NewAgent)
subAgent(idx) ==
    [Scenario |-> scenarios[idx], ExpectedOutcome |-> expectedOutcomes[idx],
     State |-> initState(parentState)]

\* entry of runLog for a run that has not returned yet
Pending == [pending |-> TRUE]

\* the channel jobs after a worker has received its head
peek(ch) == ch
receive(ch) == Tail(ch)

\* a blocked worker receives an index, builds the sub-agent and enters its Run
WorkerTakeJob ==
    /\ waiting > 0
    /\ jobs # <<>>
    /\ LET idx == Head(jobs)
       IN  /\ subAgents' = [i \in DOMAIN subAgents \cup {idx} |->
                               IF i = idx THEN subAgent(idx) ELSE subAgents[i]]
           /\ runLog' = [runLog EXCEPT ![idx] =
                            Append(@, [initial |-> subAgent(idx).State,
                                       returned |-> Pending])]
    /\ jobs' = receive(jobs)
    /\ waiting' = waiting - 1
    /\ UNCHANGED << writes, scenarios, expectedOutcomes, parentState, mainPc, started, nextJob,
                    jobsClosed, resCh, exited, results, errs, collected, parRet >>
    /\ UNCHANGED outsideParallelRun

\* what the Run of a sub-agent returns: (state, err)
RunOutcome(agent) ==
    IF agent.Scenario[1] = "failing"
    THEN [state |-> NilState, err |-> "run failed"]
    ELSE [state |-> [of |-> agent.Scenario,
                     State |-> [agent.State EXCEPT !.TurnCount = agent.State.MaxTurns]],
          err |-> NIL]

\* the result a worker sends for the run of the scenario at idx
resultAtFirst(idx, out) == [idx |-> 1, state |-> out.state, err |-> out.err]
resultStateOnly(idx, out) == [idx |-> idx, state |-> out.state, err |-> NIL]
result(idx, out) == [idx |-> idx, state |-> out.state, err |-> out.err]

\* the channel resCh after a worker has executed "resCh <- r"
sendUnlessFailed(ch, r) == IF r.err # NIL THEN ch ELSE Append(ch, r)
send(ch, r) == Append(ch, r)

\* the Run of a sub-agent returns; its worker sends the result and blocks on jobs
WorkerRunReturns(idx) ==
    /\ idx \in DOMAIN subAgents
    /\ Len(resCh) < ChanCap
    /\ LET out == RunOutcome(subAgents[idx])
       IN  /\ resCh' = send(resCh, result(idx, out))
           /\ runLog' = [runLog EXCEPT ![idx][Len(runLog[idx])].returned = out]
    /\ subAgents' = [i \in DOMAIN subAgents \ {idx} |-> subAgents[i]]
    /\ waiting' = waiting + 1
    /\ UNCHANGED << writes, scenarios, expectedOutcomes, parentState, mainPc, started, nextJob,
                    jobs, jobsClosed, exited, results, errs, collected, parRet >>
    /\ UNCHANGED outsideParallelRun

\* "for idx := range jobs" ends: the channel is closed and drained
WorkerExit ==
    /\ waiting > 0
    /\ jobs = <<>>
    /\ jobsClosed
    /\ waiting' = waiting - 1
    /\ exited' = exited + 1
    /\ UNCHANGED << writes, scenarios, expectedOutcomes, parentState, mainPc, started, nextJob,
                    jobs, jobsClosed, resCh, subAgents, results, errs, collected, parRet,
                    runLog >>
    /\ UNCHANGED outsideParallelRun

\* one iteration of the loop "r := <-resCh": the outcome is stored at r.idx
CollectResult ==
    /\ mainPc = "collect"
    /\ collected < Len(scenarios)
    /\ resCh # <<>>
    /\ LET r == Head(resCh)
       IN  /\ results' = [results EXCEPT ![r.idx] = r.state]
           /\ errs' = [errs EXCEPT ![r.idx] = r.err]
           /\ writes' = [writes EXCEPT ![r.idx] = @ + 1]
    /\ resCh' = Tail(resCh)
    /\ collected' = collected + 1
    /\ UNCHANGED << scenarios, expectedOutcomes, parentState, mainPc, started, nextJob,
                    jobs, jobsClosed, waiting, subAgents, exited, parRet, runLog >>
    /\ UNCHANGED outsideParallelRun

\* every result has been collected: ParallelRun returns (results, errs)
ParallelRunReturn ==
    /\ mainPc = "collect"
    /\ collected >= Len(scenarios)
    /\ parRet' = [results |-> results, errs |-> errs]
    /\ mainPc' = "returned"
    /\ UNCHANGED << writes, scenarios, expectedOutcomes, parentState, started, nextJob, jobs,
                    jobsClosed, resCh, waiting, subAgents, exited, results, errs,
                    collected, runLog >>
    /\ UNCHANGED outsideParallelRun

ParallelRunNext ==
    \/ ParallelRunMismatch
    \/ ParallelRunSetup
    \/ StartWorker
    \/ SendJob
    \/ CloseJobs
    \/ WorkerTakeJob
    \/ \E idx \in 1..Len(scenarios) : WorkerRunReturns(idx)
    \/ WorkerExit
    \/ CollectResult
    \/ ParallelRunReturn

\* one ParallelRun call, and no Run outside it
InitParallelRun == RunIdle /\ ParallelRunInit /\ HandlerIdle /\ ClientIdle /\ KnovvuIdle

SpecParallelRun == InitParallelRun /\ [][ParallelRunNext]_vars

\* the goroutines of ParallelRun keep taking steps while one of them can
SpecParallelRunLive == SpecParallelRun /\ WF_vars(ParallelRunNext)

(***************************************************************************)
(* The background goroutine of handleRunProjectTest and of                 *)
(* ScenarioRunHandler: it builds an agent, calls Run (the steps above) and *)
(* turns what Run returned into the statuses it stores.  Neither goroutine *)
(* defers a recover, so a panic in it ends the process.                    *)
(***************************************************************************)
Handlers == {"handleRunProjectTest", "ScenarioRunHandler"}

\* the conversion int16(n) of an int
int16(n) == LET m == n % 65536 IN IF m >= 32768 THEN m - 65536 ELSE m

\* values of max_interactions a project's row may hold (CreateTest stores any
\* positive value)
StoredMaxInteractions == (1..MaxBudget) \cup {65536}

\* the goroutine has set the run to "running" and enters testingAgent.Run()
HandlerInit ==
    /\ handler \in Handlers
    /\ hPc = "run"
    /\ process = "up"
    /\ scenarioStatus = "Running"
    /\ runStatus = "running"
    /\ maxInteractions \in StoredMaxInteractions
    /\ State.MaxTurns = int16(maxInteractions)
    /\ storedStatus = "Running"
    /\ stopped = FALSE

\* Run has returned to the goroutine
RunReturned == pc \in {"done", "failed"}

\* evaluating finaljudgement.Judgement on what Run returned panics
DerefPanics(judgement) == judgement = NIL

\* "currentScenarioStatus := finaljudgement.Judgement", before agentErr is looked at
HandlerReadJudgement ==
    /\ hPc = "run"
    /\ RunReturned
    /\ IF DerefPanics(ret.judgement)
       THEN /\ hPc' = "panic"
            /\ process' = "down"
            /\ UNCHANGED scenarioStatus
       ELSE /\ hPc' = "status"
            /\ scenarioStatus' = ret.judgement
            /\ UNCHANGED process
    /\ UNCHANGED << handler, runStatus, maxInteractions, storedStatus, stopped >>
    /\ UNCHANGED outsideHandler

\* the statuses are settled from agentErr and finalState.Fulfilled
HandlerSetStatus ==
    /\ hPc = "status"
    /\ IF handler = "handleRunProjectTest"
       THEN /\ scenarioStatus' = IF ret.err # NIL THEN "Error"
                                 ELSE IF ~State.Fulfilled THEN "Fail"
                                 ELSE scenarioStatus
            /\ runStatus' = "completed"
       ELSE /\ scenarioStatus' = IF ret.err # NIL THEN "Fail" ELSE scenarioStatus
            /\ runStatus' = IF ret.err # NIL \/ ~State.Fulfilled
                            THEN "failed" ELSE "completed"
    /\ storedStatus' = scenarioStatus'
    /\ hPc' = "done"
    /\ UNCHANGED << handler, process, maxInteractions, stopped >>
    /\ UNCHANGED outsideHandler

\* StopScenarioHandler is served while the goroutine of the scenario is running:
\* it stores the status "Error" and does nothing else
StopScenarioHandler ==
    /\ hPc \in {"run", "status"}
    /\ ~stopped
    /\ storedStatus' = "Error"
    /\ stopped' = TRUE
    /\ UNCHANGED << handler, hPc, process, scenarioStatus, runStatus, maxInteractions >>
    /\ UNCHANGED outsideHandler

HandlerNext ==
    \/ Next
    \/ HandlerReadJudgement
    \/ HandlerSetStatus
    \/ StopScenarioHandler

InitHandler == RunInit /\ ParallelRunIdle /\ HandlerInit /\ ClientIdle /\ KnovvuIdle

SpecHandler == InitHandler /\ [][HandlerNext]_vars

\* the goroutine and the run it calls keep taking steps while they can
SpecHandlerLive == SpecHandler /\ WF_vars(HandlerNext)

(***************************************************************************)
(* GenerateContentREST of the three generation clients: the attempt loop   *)
(* around client.Do and the checks after it.  A reply with status 200 is   *)
(* taken to carry a well-formed body.                                      *)
(***************************************************************************)
Clients == {"gemini", "cohere", "openai", "cohereJudgment"}

\* attempts of one call
maxRetriesFour == 3 + 1
maxRetries == 3

\* the statuses a backend answers with
Statuses == {200, 400, 401, 403, 404, 429, 500, 502, 503, 504}

\* the statuses named by the switch statements of the Gemini and OpenAI loops
RetriableAndClientErrorStatuses == {400, 401, 403, 404, 429, 500, 502, 503, 504}
RetriableStatuses == {429, 500, 502, 503, 504}

\* what makes client.Do fail: the 60 s client timeout, the transport's header
\* timeout, a refused connection, a connection closed by the peer
TransportCauses ==
    { "context deadline exceeded (Client.Timeout exceeded while awaiting headers)",
      "net/http: timeout awaiting response headers",
      "dial tcp: connect: connection refused",
      "EOF" }

\* what makes client.Do fail once the deadline of ctx has passed
CtxCause == "context deadline exceeded"

\* the fields of the JSON object a reply text is to hold (three of them)
OutputFields == {"next_message", "fulfilled", "confidence"}

\* the text of a candidate: empty, not JSON, or a JSON object with the
\* fields `has`: all of them, all but confidence, none
Texts ==
    { [raw |-> "", has |-> {}], [raw |-> "not json", has |-> {}] }
      \cup { [raw |-> "object", has |-> h] :
                h \in { OutputFields, OutputFields \ {"confidence"}, {} } }

\* the body of a reply: an empty payload, a payload that is not JSON, or a
\* JSON envelope with no candidate or with one candidate
NoBody == [raw |-> "", candidates |-> <<>>]
Bodies ==
    { NoBody, [raw |-> "<html>", candidates |-> <<>>], [raw |-> "json", candidates |-> <<>>] }
      \cup { [raw |-> "json", candidates |-> << t >>] : t \in Texts }

\* a backend reply to one request: a status with a body, or a failure of the
\* transport
BackendReplies ==
    { [status |-> 200, cause |-> NIL, body |-> b] : b \in Bodies }
      \cup { [status |-> st, cause |-> NIL, body |-> NoBody] : st \in Statuses \ {200} }
      \cup { [status |-> 0, cause |-> c, body |-> NoBody] : c \in TransportCauses }

apiEndpoint == "https://api.cohere.com/v2/chat"

\* err.Error() of the *url.Error that client.Do returns for a POST
ErrorString(cause) == "Post \"" \o apiEndpoint \o "\": " \o cause

\* the messages the Gemini and OpenAI loops compare err.Error() with
TimeoutMessages ==
    { "context deadline exceeded",
      "Client.Timeout exceeded while awaiting headers",
      "net/http: timeout awaiting response headers" }

\* fmt.Errorf(msg) and fmt.Errorf(msg + ": %w", inner)
ClientError(msg) == [ok |-> FALSE, err |-> msg, wraps |-> NIL]
ClientErrorWrapping(msg, inner) == [ok |-> FALSE, err |-> msg, wraps |-> inner]

\* return &output, nil
ClientOk(output) == [ok |-> TRUE, err |-> NIL, wraps |-> NIL, output |-> output]

\* a run-time panic of the goroutine that executes the call
ClientPanic == [ok |-> FALSE, err |-> "panic: index out of range", wraps |-> NIL]

\* json.Unmarshal of a JSON object into the output struct: a field the
\* object lacks keeps its zero value
Unmarshal(text) ==
    ClientOk([NextMessage |-> IF "next_message" \in text.has THEN "hello" ELSE "",
              Fulfilled |-> IF "fulfilled" \in text.has THEN TRUE ELSE FALSE,
              Confidence |-> IF "confidence" \in text.has THEN "high" ELSE ""])

\* the check of the number of candidates before the first one is read: the
\* generation call of the Cohere client has none
ChecksCandidates(c) == c # "cohere"

\* the handling of the body of a reply with status 200
ParseBody(c, body) ==
    IF body.raw # "json"
    THEN ClientError("failed to unmarshal response")
    ELSE IF Len(body.candidates) = 0
    THEN IF ChecksCandidates(c)
         THEN ClientError("no candidates returned")
         ELSE ClientPanic
    ELSE IF body.candidates[1].raw = ""
    THEN ClientError("empty text content in the response")
    ELSE IF body.candidates[1].raw # "object"
    THEN ClientError("failed to unmarshal output")
    ELSE Unmarshal(body.candidates[1])

\* the call has built its request body and its context and enters the loop
ClientInit ==
    /\ client \in Clients
    /\ cPc = "loop"
    /\ attempt = 0
    /\ resp = NoResp
    /\ doErr = NIL
    /\ lastErr = NIL
    /\ ctxDone = FALSE
    /\ requests = <<>>
    /\ doCalls = 0
    /\ cRet = NoResult

\* the 90 s deadline of ctx passes while the call is in progress
ClockExpire ==
    /\ cPc \notin {"idle", "returned"}
    /\ ~ctxDone
    /\ ctxDone' = TRUE
    /\ UNCHANGED << client, cPc, attempt, resp, doErr, lastErr, requests, doCalls, cRet >>
    /\ UNCHANGED outsideClient

\* the loop test, and in the Gemini loop the check of ctx.Done(); the sleep of
\* a later attempt lies between this step and the request
ClientLoopTop ==
    /\ cPc = "loop"
    /\ IF attempt >= maxRetries
       THEN cPc' = "after" /\ UNCHANGED cRet
       ELSE IF client = "gemini" /\ ctxDone
       THEN /\ cRet' = ClientErrorWrapping("operation canceled or timed out", CtxCause)
            /\ cPc' = "returned"
       ELSE cPc' = "do" /\ UNCHANGED cRet
    /\ UNCHANGED << client, attempt, resp, doErr, lastErr, ctxDone, requests, doCalls >>
    /\ UNCHANGED outsideClient

\* the field Temperature of the client's request type is tagged omitempty
OmitEmpty(c) == c \in {"gemini", "openai"}

\* json.Marshal of the request body: the fields the JSON text has, and the
\* temperature when it is among them
Marshal(c, temperature) ==
    IF OmitEmpty(c) /\ temperature = 0
    THEN [fields |-> {"model", "messages"}]
    ELSE [fields |-> {"model", "messages", "temperature"}, temperature |-> temperature]

\* resp, err = client.Do(req): with the deadline passed the request fails
\* without reaching the backend
ClientDo ==
    /\ cPc = "do"
    /\ \E r \in BackendReplies :
          IF ctxDone
          THEN /\ resp' = NoResp
               /\ doErr' = ErrorString(CtxCause)
               /\ UNCHANGED requests
          ELSE /\ requests' = Append(requests,
                                      [status |-> r.status, cause |-> r.cause,
                                       body |-> r.body, sent |-> Marshal(client, 0)])
               /\ IF r.cause = NIL
                  THEN resp' = [status |-> r.status, body |-> r.body] /\ doErr' = NIL
                  ELSE resp' = NoResp /\ doErr' = ErrorString(r.cause)
    /\ doCalls' = doCalls + 1
    /\ cPc' = "classify"
    /\ UNCHANGED << client, attempt, lastErr, ctxDone, cRet >>
    /\ UNCHANGED outsideClient

\* the Gemini loop after client.Do: any response ends the loop; an error is
\* retried when its message is one of TimeoutMessages and attempts remain
GeminiClassify ==
    /\ cPc = "classify"
    /\ client = "gemini"
    /\ IF doErr = NIL
       THEN /\ cPc' = "after"
            /\ UNCHANGED << attempt, lastErr >>
       ELSE /\ lastErr' = doErr
            /\ LET shouldRetry == doErr \in TimeoutMessages
               IN  IF ~shouldRetry \/ attempt = maxRetries - 1
                   THEN cPc' = "after" /\ UNCHANGED attempt
                   ELSE cPc' = "loop" /\ attempt' = attempt + 1
    /\ UNCHANGED << client, resp, doErr, ctxDone, requests, doCalls, cRet >>
    /\ UNCHANGED outsideClient

\* the Cohere loop after client.Do: any response ends the loop; an error is
\* retried unless ctx is done or it was the last attempt
CohereClassify ==
    /\ cPc = "classify"
    /\ client \in {"cohere", "cohereJudgment"}
    /\ IF doErr = NIL
       THEN /\ cPc' = "after"
            /\ UNCHANGED << attempt, lastErr, cRet >>
       ELSE /\ lastErr' = doErr
            /\ IF ctxDone \/ attempt = maxRetries - 1
               THEN /\ cRet' = ClientErrorWrapping("request failed after attempts", doErr)
                    /\ cPc' = "returned"
                    /\ UNCHANGED attempt
               ELSE /\ cPc' = "loop"
                    /\ attempt' = attempt + 1
                    /\ UNCHANGED cRet
    /\ UNCHANGED << client, resp, doErr, ctxDone, requests, doCalls >>
    /\ UNCHANGED outsideClient

\* the OpenAI loop after client.Do: status 200 ends the loop; with ctx done
\* the call returns; a timeout message or a status of RetriableStatuses is
\* retried while attempts remain
OpenAIClassify ==
    /\ cPc = "classify"
    /\ client = "openai"
    /\ IF doErr = NIL /\ resp # NoResp /\ resp.status = 200
       THEN /\ cPc' = "after"
            /\ UNCHANGED << attempt, lastErr, cRet >>
       ELSE /\ lastErr' = IF doErr # NIL THEN doErr ELSE "OpenAI API returned status"
            /\ IF ctxDone
               THEN /\ cRet' = ClientErrorWrapping(
                                 "OpenAI request cancelled or timed out during retry", CtxCause)
                    /\ cPc' = "returned"
                    /\ UNCHANGED attempt
               ELSE /\ LET shouldRetry ==
                              IF doErr # NIL
                              THEN doErr \in TimeoutMessages
                              ELSE resp.status \in RetriableStatuses
                       IN  IF ~shouldRetry \/ attempt = maxRetries - 1
                           THEN cPc' = "after" /\ UNCHANGED attempt
                           ELSE cPc' = "loop" /\ attempt' = attempt + 1
                    /\ UNCHANGED cRet
    /\ UNCHANGED << client, resp, doErr, ctxDone, requests, doCalls >>
    /\ UNCHANGED outsideClient

\* what each client returns after its loop
AfterLoop(c) ==
    CASE c = "gemini" ->
            IF lastErr # NIL /\ resp = NoResp
            THEN IF ctxDone
                 THEN ClientErrorWrapping("operation canceled or timed out after attempts",
                                          CtxCause)
                 ELSE ClientErrorWrapping(
                         "all request attempts failed due to network/client errors", lastErr)
            ELSE IF resp = NoResp
            THEN ClientError("no response received from Gemini API")
            ELSE IF resp.status # 200
            THEN ClientError("API returned non-OK status")
            ELSE ParseBody(c, resp.body)
      [] c \in {"cohere", "cohereJudgment"} ->
            IF resp = NoResp
            THEN ClientErrorWrapping("all attempts failed", lastErr)
            ELSE IF resp.status # 200
            THEN ClientError("API error: status")
            ELSE ParseBody(c, resp.body)
      [] c = "openai" ->
            IF ctxDone
            THEN ClientError("OpenAI operation cancelled or timed out")
            ELSE IF resp = NoResp
            THEN ClientErrorWrapping("all OpenAI request attempts failed", lastErr)
            ELSE IF resp.status # 200
            THEN ClientError("OpenAI API error: status")
            ELSE ParseBody(c, resp.body)

\* the checks after the loop and the return
ClientAfterLoop ==
    /\ cPc = "after"
    /\ IF AfterLoop(client) = ClientPanic
       THEN cPc' = "panic" /\ UNCHANGED cRet
       ELSE cPc' = "returned" /\ cRet' = AfterLoop(client)
    /\ UNCHANGED << client, attempt, resp, doErr, lastErr, ctxDone, requests, doCalls >>
    /\ UNCHANGED outsideClient

ClientNext ==
    \/ ClockExpire
    \/ ClientLoopTop
    \/ ClientDo
    \/ GeminiClassify
    \/ CohereClassify
    \/ OpenAIClassify
    \/ ClientAfterLoop

InitClient == RunIdle /\ ParallelRunIdle /\ HandlerIdle /\ ClientInit /\ KnovvuIdle

SpecClient == InitClient /\ [][ClientNext]_vars

(***************************************************************************)
(* The Knovvu client (knovvu_client.go) and what Agent.Run makes of its    *)
(* results.                                                                *)
(***************************************************************************)
KnovvuCalls == {"GetKnovvuToken", "SendKnovvuMessage"}

\* what .env may hold
Configs == [loads : BOOLEAN, client_id : {"", "id"}, client_secret : {"", "secret"}]

\* a mutant of ConfigMissing: only the client id is looked at
ConfigMissingIdOnly(cfg) == cfg.client_id = ""

\* clientID == "" || clientSecret == ""
ConfigMissing(cfg) == cfg.client_id = "" \/ cfg.client_secret = ""

\* strings.TrimSpace on the utterances of Messages
TrimSpace(text) == IF text = " " THEN "" ELSE text

\* attachments a reply may carry
NoPromptCard == [PickOneCard EXCEPT !.text = ""]

MixedButtonsCard ==
    [PickOneCard EXCEPT !.buttons = << [isMap |-> FALSE, title |-> "", value |-> ""],
                                       [isMap |-> TRUE, title |-> "B", value |-> "b"] >>]

NoButtonsCard == [PickOneCard EXCEPT !.buttons = <<>>]

OtherCard == [PickOneCard EXCEPT !.contentType = "application/vnd.microsoft.card.adaptive"]

NotAnObject == [PickOneCard EXCEPT !.isMap = FALSE]

Cards == {PickOneCard, NoPromptCard, MixedButtonsCard, NoButtonsCard, OtherCard,
          NotAnObject}

\* the replies (knovvu.KnovvuResponse) a body can decode to
KnovvuReplies ==
    [Text : {"", "VA reply"},
     Attachments : {<<>>} \cup { << c >> : c \in Cards }
                          \cup { << c, d >> : c \in {OtherCard, NoButtonsCard}, d \in Cards }]

\* the zero value of knovvu.KnovvuResponse
ZeroReply == [Text |-> "", Attachments |-> <<>>]

\* bodies of the message endpoint: raw says what the bytes are, value what an
\* object decodes to
MessageBodies ==
    { [raw |-> r, value |-> ZeroReply] : r \in {"", "<html>", "[]", "null", "{}"} }
    \cup { [raw |-> "object", value |-> v] : v \in KnovvuReplies }

\* bodies of the token endpoint
TokenBodies ==
    { [raw |-> r, value |-> [access_token |-> ""]] : r \in {"", "<html>", "{}"} }
    \cup { [raw |-> "object", value |-> [access_token |-> "token"]] }

KnovvuStatuses == {200, 201, 400, 401, 429, 500, 502, 503, 504}

\* what client.Do can return for a request
KnovvuDoResults(call) ==
    { [status |-> 0, cause |-> c, body |-> [raw |-> "", value |-> ZeroReply]] :
          c \in TransportCauses }
    \cup { [status |-> s, cause |-> NIL, body |-> b] :
               s \in KnovvuStatuses,
               b \in IF call = "GetKnovvuToken" THEN TokenBodies ELSE MessageBodies }

\* resp.StatusCode < 200 || resp.StatusCode >= 300
Non2xx(status) == status < 200 \/ status >= 300

\* json.Unmarshal(body, &v) reports an error
UnmarshalFails(body) == body.raw \in {"", "<html>", "[]"}

\* the *KnovvuResponse nil
NilResponse == [nil |-> TRUE]

KnovvuReturn(err, token, response) ==
    [returned |-> TRUE, err |-> err, token |-> token, resp |-> response]

\* the request the call hands to client.Do
KnovvuRequest(call, text) == [call |-> call, text |-> text]

\* a mutant of DecodeReply: a 2xx body that does not decode counts as an empty reply
DecodeReplyLenient(body) ==
    IF UnmarshalFails(body)
    THEN KnovvuReturn(NIL, "", ZeroReply)
    ELSE KnovvuReturn(NIL, "", IF body.raw = "object" THEN body.value ELSE ZeroReply)

\* json.Unmarshal of a 2xx body of the message endpoint
DecodeReply(body) ==
    IF UnmarshalFails(body)
    THEN KnovvuReturn("failed to parse successful response", "", NilResponse)
    ELSE KnovvuReturn(NIL, "", IF body.raw = "object" THEN body.value ELSE ZeroReply)

KnovvuInit ==
    /\ kCall \in KnovvuCalls
    /\ kPc = "entry"
    /\ kConfig \in IF kCall = "GetKnovvuToken" THEN Configs
                   ELSE {[loads |-> TRUE, client_id |-> "id", client_secret |-> "secret"]}
    /\ kText \in IF kCall = "SendKnovvuMessage"
                 THEN { m \in Messages : ShouldSend(m) } ELSE {""}
    /\ kReply = NoReply
    /\ kSent = <<>>
    /\ kRet = NoKnovvuResult
    /\ kRun = NoRunOutcome

\* GetKnovvuToken up to the request: .env is loaded and the two settings are read
GetKnovvuTokenConfig ==
    /\ kCall = "GetKnovvuToken"
    /\ kPc = "entry"
    /\ IF ~kConfig.loads
       THEN kRet' = KnovvuReturn("error loading .env file", "", NilResponse)
            /\ kPc' = "returned"
       ELSE IF ConfigMissing(kConfig)
       THEN kRet' = KnovvuReturn("client_id or client_secret not set in .env", "",
                                 NilResponse)
            /\ kPc' = "returned"
       ELSE kRet' = kRet /\ kPc' = "do"
    /\ UNCHANGED << kCall, kConfig, kText, kReply, kSent, kRun >>
    /\ UNCHANGED outsideKnovvu

\* SendKnovvuMessage up to the request: the text is trimmed
SendKnovvuMessageBuild ==
    /\ kCall = "SendKnovvuMessage"
    /\ kPc = "entry"
    /\ kText' = TrimSpace(kText)
    /\ kPc' = "do"
    /\ UNCHANGED << kCall, kConfig, kReply, kSent, kRet, kRun >>
    /\ UNCHANGED outsideKnovvu

\* client.Do(req)
KnovvuDo ==
    /\ kPc = "do"
    /\ \E reply \in KnovvuDoResults(kCall) :
          /\ kReply' = reply
          /\ kSent' = Append(kSent, KnovvuRequest(kCall, kText))
          /\ kPc' = "response"
    /\ UNCHANGED << kCall, kConfig, kText, kRet, kRun >>
    /\ UNCHANGED outsideKnovvu

\* GetKnovvuToken after the request
GetKnovvuTokenResponse ==
    /\ kCall = "GetKnovvuToken"
    /\ kPc = "response"
    /\ kRet' = IF kReply.cause # NIL
               THEN KnovvuReturn("token request failed", "", NilResponse)
               ELSE IF Non2xx(kReply.status)
               THEN KnovvuReturn("token endpoint returned status", "", NilResponse)
               ELSE IF UnmarshalFails(kReply.body)
               THEN KnovvuReturn("failed to parse token response", "", NilResponse)
               ELSE IF kReply.body.value.access_token = ""
               THEN KnovvuReturn("access_token not found in response", "", NilResponse)
               ELSE KnovvuReturn(NIL, kReply.body.value.access_token, NilResponse)
    /\ kPc' = "returned"
    /\ UNCHANGED << kCall, kConfig, kText, kReply, kSent, kRun >>
    /\ UNCHANGED outsideKnovvu

\* SendKnovvuMessage after the request
SendKnovvuMessageResponse ==
    /\ kCall = "SendKnovvuMessage"
    /\ kPc = "response"
    /\ kRet' = IF kReply.cause # NIL
               THEN KnovvuReturn("request failed", "", NilResponse)
               ELSE IF Non2xx(kReply.status)
               THEN KnovvuReturn("received non-2xx response", "", NilResponse)
               ELSE DecodeReply(kReply.body)
    /\ kPc' = "returned"
    /\ UNCHANGED << kCall, kConfig, kText, kReply, kSent, kRun >>
    /\ UNCHANGED outsideKnovvu

\* what Agent.Run does with the result: an error ends the run with ErrInternal,
\* a reply gives the text recorded for the turn
RunAfterKnovvu ==
    /\ kPc = "returned"
    /\ kRun' = IF kRet.err # NIL
               THEN [seen |-> TRUE, failed |-> TRUE, vaResponse |-> NIL]
               ELSE IF kCall = "GetKnovvuToken"
               THEN [seen |-> TRUE, failed |-> FALSE, vaResponse |-> NIL]
               ELSE [seen |-> TRUE, failed |-> FALSE, vaResponse |-> VaResponse(kRet.resp)]
    /\ kPc' = "done"
    /\ UNCHANGED << kCall, kConfig, kText, kReply, kSent, kRet >>
    /\ UNCHANGED outsideKnovvu

KnovvuNext ==
    \/ GetKnovvuTokenConfig
    \/ SendKnovvuMessageBuild
    \/ KnovvuDo
    \/ GetKnovvuTokenResponse
    \/ SendKnovvuMessageResponse
    \/ RunAfterKnovvu

InitKnovvu == RunIdle /\ ParallelRunIdle /\ HandlerIdle /\ ClientIdle /\ KnovvuInit

SpecKnovvu == InitKnovvu /\ [][KnovvuNext]_vars

(***************************************************************************)
(* Observations on the trace of calls, used by the properties below.       *)
(***************************************************************************)
CallsOf(op) == { i \in 1..Len(calls) : calls[i].op = op }

NumCalls(op) == Cardinality(CallsOf(op))

\* generation calls that returned a reply with fulfilled = true
FulfilledReplies == { i \in CallsOf("generate") : calls[i].ok /\ calls[i].fulfilled }

\* generation calls that returned a reply with an empty utterance
EmptyUtterances == { i \in CallsOf("generate") : calls[i].ok /\ calls[i].text = "" }

\* Run has left the turn loop and returned: with the judgment, or with the
\* error of the judgment call
LoopCompleted ==
    \/ pc = "done"
    \/ pc = "failed" /\ ret.err = "failed to generate Judgement Results from LLM"

HistoryTurns == { State.History[i].Turn : i \in 1..Len(State.History) }

(***************************************************************************)
(* Properties of Agent.Run.                                                *)
(***************************************************************************)

FulfilledEndsRun ==
    \A i \in FulfilledReplies :
        /\ calls[i].turn <= State.MaxTurns
        /\ State.TurnCount = calls[i].turn
        /\ State.Fulfilled
        /\ \A j \in CallsOf("generate") : j <= i
        /\ LoopCompleted => NumCalls("judge") = 1
        /\ pc = "done" => ret.state = "&a.State"

\* a run fulfilled on turn 2 of a larger budget has returned
FulfilledOnTurnTwo ==
    /\ pc = "done"
    /\ State.MaxTurns > 2
    /\ \E i \in FulfilledReplies : calls[i].turn = 2
    /\ NumCalls("judge") = 1

\* C3: when the generation backend never returns fulfilled = true, a run with
\* turn budget N that reaches its end has TurnCount = N and Fulfilled = false,
\* has made N generation calls, and has requested the judgment exactly once.
NeverFulfilledRunsWholeBudget ==
    (LoopCompleted /\ FulfilledReplies = {}) =>
        /\ State.TurnCount = State.MaxTurns
        /\ ~State.Fulfilled
        /\ NumCalls("generate") = State.MaxTurns
        /\ NumCalls("judge") = 1

\* an unfulfilled run has used its whole budget and returned
BudgetExhaustedRun ==
    /\ pc = "done"
    /\ State.MaxTurns = MaxBudget
    /\ State.TurnCount = MaxBudget
    /\ FulfilledReplies = {}
    /\ NumCalls("judge") = 1

\* C4: the judgment is requested at most once, only after the turn loop has
\* ended (by fulfilment or by budget exhaustion) and with the whole History;
\* it is the last call of the run, never made while turns are executed, and a
\* run that returns without error has obtained exactly one judgment.
JudgmentOnceAfterLoop ==
    /\ NumCalls("judge") <= 1
    /\ \A i \in CallsOf("judge") :
          /\ i = Len(calls)
          /\ calls[i].fulfilled \/ calls[i].turn >= State.MaxTurns
          /\ calls[i].conv = State.History
          /\ pc \in {"done", "failed"}
    /\ pc \in {"start", "loop", "generate", "send", "check", "judge"} =>
          /\ NumCalls("judge") = 0
          /\ ret.judgement = "none"
    /\ pc = "done" <=> ret.judgement \in Judgments
    /\ pc = "done" => NumCalls("judge") = 1

\* a judged run of several recorded turns
JudgedAfterSeveralTurns ==
    /\ pc = "done"
    /\ NumCalls("judge") = 1
    /\ Len(State.History) >= 2
    /\ ret.judgement \in Judgments

\* C5 (as stated): for any completed run the Turn values of the History items
\* form the contiguous sequence 1..TurnCount.
HistoryTurnsContiguous ==
    pc = "done" =>
        /\ Len(State.History) = State.TurnCount
        /\ \A i \in 1..Len(State.History) : State.History[i].Turn = i

\* C5 (amended): for any completed run the Turn values of the History items
\* are strictly increasing and are exactly the turns of 1..TurnCount whose
\* generated utterance was not empty; they form the contiguous sequence
\* 1..TurnCount exactly when no turn had an empty utterance.
HistoryTurnsAreSentTurns ==
    pc = "done" =>
        /\ \A i, j \in 1..Len(State.History) :
              i < j => State.History[i].Turn < State.History[j].Turn
        /\ HistoryTurns = (1..State.TurnCount) \ { calls[i].turn : i \in EmptyUtterances }
        /\ (EmptyUtterances = {}) <=>
              /\ Len(State.History) = State.TurnCount
              /\ \A i \in 1..Len(State.History) : State.History[i].Turn = i

\* a completed run whose History has a gap at turn 2
HistoryWithGap ==
    /\ pc = "done"
    /\ State.TurnCount = 3
    /\ Len(State.History) = 2
    /\ State.History[1].Turn = 1
    /\ State.History[2].Turn = 3

\* C6: once State.Fulfilled is true no further turn is recorded: the turn
\* count no longer changes, Fulfilled stays true, and the only record that can
\* still be appended is the one of the turn that set Fulfilled.
NoTurnAfterFulfilled ==
    [][ State.Fulfilled =>
          /\ State'.Fulfilled
          /\ State'.TurnCount = State.TurnCount
          /\ \/ State'.History = State.History
             \/ /\ pc = "send"
                /\ Len(State'.History) = Len(State.History) + 1
                /\ SubSeq(State'.History, 1, Len(State.History)) = State.History
                /\ State'.History[Len(State'.History)].Turn = State.TurnCount
                /\ State.TurnCount \notin HistoryTurns ]_vars

\* a run fulfilled before its budget was used, with the fulfilling turn recorded
FulfilledBeforeBudget ==
    /\ pc = "done"
    /\ State.Fulfilled
    /\ State.TurnCount < State.MaxTurns
    /\ State.TurnCount \in HistoryTurns

\* C7: a turn whose generated utterance is empty is counted (the k-th
\* generation call belongs to turn k and TurnCount is at least k), but no
\* History item carries that turn and no SendKnovvuMessage call is made in it.
EmptyUtteranceTurn ==
    /\ \A i \in CallsOf("generate") :
          /\ calls[i].turn = Cardinality({ j \in CallsOf("generate") : j <= i })
          /\ State.TurnCount >= calls[i].turn
    /\ \A i \in EmptyUtterances :
          /\ calls[i].turn \notin HistoryTurns
          /\ \A j \in CallsOf("send") : calls[j].turn # calls[i].turn

\* a completed run whose first turn had an empty utterance and whose second had not
EmptyThenSpoken ==
    /\ pc = "done"
    /\ State.TurnCount = 2
    /\ \E i \in EmptyUtterances : calls[i].turn = 1
    /\ HistoryTurns = {2}
    /\ NumCalls("send") = 1

\* C8: after the first error from credential acquisition, generation or
\* transport, Run makes no further call (the failed call is the last of the
\* trace) and has returned the error with no judgment; no reply or fulfilled
\* value is substituted in order to go on.
FailedIsAbsorbing ==
    \A i \in CallsOf("token") \cup CallsOf("generate") \cup CallsOf("send") :
        ~calls[i].ok =>
            /\ i = Len(calls)
            /\ pc = "failed"
            /\ ret.err \notin {NIL, "none"}
            /\ ret.judgement = NIL
            /\ NumCalls("judge") = 0

\* a generation error after a recorded turn has ended the run
FailedInSecondTurn ==
    /\ pc = "failed"
    /\ Len(State.History) >= 1
    /\ calls[Len(calls)].op = "generate"
    /\ ~calls[Len(calls)].ok

\* C9: when a run fails after one or more turns, the caller receives the
\* partial run state (turn count and history) together with the error.
PartialStateReported ==
    (pc = "failed" /\ State.TurnCount >= 1) =>
        /\ ret.err \notin {NIL, "none"}
        /\ ret.state = "&a.State"

\* C10: the credential is the first call of a run, and when it fails Run
\* returns the error before any turn: TurnCount stays 0, History stays empty
\* and no generation, transport or judgment call is made.
CredentialFailureBeforeAnyTurn ==
    /\ calls # <<>> => calls[1].op = "token"
    /\ (calls # <<>> /\ ~calls[1].ok) =>
          /\ pc = "failed"
          /\ Len(calls) = 1
          /\ State.TurnCount = 0
          /\ State.History = <<>>
          /\ ret = ErrorReturn("failed to get Knovvu token")

\* Run has returned the credential error
CredentialFailed ==
    /\ pc = "failed"
    /\ Len(calls) = 1
    /\ calls[1].op = "token"
    /\ ~calls[1].ok

(***************************************************************************)
(* Properties of Agent.ParallelRun.                                        *)
(***************************************************************************)
\* ParallelRun was called with lists of one length and has returned
ReturnedForEqualLengths ==
    /\ mainPc = "returned"
    /\ Len(scenarios) = Len(expectedOutcomes)

\* the state every sub-agent has to start from
FreshState == [History |-> <<>>, TurnCount |-> 0, MaxTurns |-> 10, Fulfilled |-> FALSE]

\* C11: when ParallelRun returns for n scenarios and n expected outcomes, the
\* result list and the error list both have length n and every position
\* holds a final state or an error, never neither.
OneOutcomePerScenario ==
    ReturnedForEqualLengths =>
        /\ Len(parRet.results) = Len(scenarios)
        /\ Len(parRet.errs) = Len(scenarios)
        /\ \A i \in 1..Len(scenarios) :
              parRet.results[i] # NilState \/ parRet.errs[i] # NIL

\* C11 witness: a call with more scenarios than workers has returned, with
\* a final state at some positions and an error at others
ReturnedMixedOutcomes ==
    /\ ReturnedForEqualLengths
    /\ Len(scenarios) > maxParallel
    /\ \E i, j \in 1..Len(scenarios) :
          parRet.results[i] # NilState /\ parRet.errs[j] # NIL

\* C12: whatever the order in which the runs complete and their results are
\* collected, a written position i of results and errs holds what the run of
\* the scenario at input position i returned.
SlotHoldsOwnOutcome ==
    \A i \in 1..Len(writes) :
        writes[i] > 0 =>
            /\ Len(runLog[i]) > 0
            /\ runLog[i][Len(runLog[i])].returned = [state |-> results[i], err |-> errs[i]]
            /\ results[i] # NilState => results[i].of = scenarios[i]

\* C12 witness: a later position has been written while an earlier one is
\* still open, so the runs completed out of input order
CompletedOutOfOrder ==
    \E i, j \in 1..Len(writes) :
        i < j /\ writes[i] = 0 /\ writes[j] > 0 /\ results[j] # NilState

\* C13: the failure of a run leaves the other scenarios alone: the call is
\* never stuck before it returns, and at return every scenario has been run
\* once, every passing scenario's position holds the final state of its own
\* run and no error, and every failing scenario's position holds its error.
FailureIsIsolated ==
    /\ mainPc # "returned" => ENABLED ParallelRunNext
    /\ ReturnedForEqualLengths =>
          \A i \in 1..Len(scenarios) :
              /\ Len(runLog[i]) = 1
              /\ IF scenarios[i][1] = "passing"
                 THEN /\ parRet.errs[i] = NIL
                      /\ parRet.results[i] =
                            [of |-> scenarios[i],
                             State |-> [FreshState EXCEPT !.TurnCount = 10]]
                 ELSE /\ parRet.errs[i] = "run failed"
                      /\ parRet.results[i] = NilState

\* C13 witness: the first and the last run failed and the call returned the
\* outcomes of the runs between them
ReturnedAroundFailures ==
    /\ ReturnedForEqualLengths
    /\ Len(scenarios) > 2
    /\ parRet.errs[1] # NIL
    /\ parRet.errs[Len(scenarios)] # NIL
    /\ \E i \in 2..(Len(scenarios) - 1) : parRet.results[i] # NilState

\* C15: at no instant are more than 5 sub-agent runs in progress in one
\* ParallelRun call, however many scenarios it was given.
AtMostFiveRuns == Cardinality(DOMAIN subAgents) <= 5

\* C15 witness: five runs are in progress while a sixth scenario waits in
\* the channel jobs
FiveRunsAndOneQueued ==
    /\ Cardinality(DOMAIN subAgents) = 5
    /\ jobs # <<>>

\* C16: a position of results and errs is assigned at most once, exactly once
\* by the time ParallelRun returns, and no index is taken by two workers:
\* each index is run once and sent once.
SlotWrittenOnce ==
    \A i \in 1..Len(writes) :
        /\ writes[i] <= 1
        /\ Len(runLog[i]) <= 1
        /\ Cardinality({ k \in 1..Len(resCh) : resCh[k].idx = i }) + writes[i] <= 1
        /\ ReturnedForEqualLengths => writes[i] = 1

\* C16 witness: ParallelRun has returned after writing six or more positions
AllSlotsWritten ==
    /\ ReturnedForEqualLengths
    /\ Len(scenarios) > maxParallel
    /\ \A i \in 1..Len(scenarios) : writes[i] = 1

\* C17: when the two lists differ in length no worker is started, no
\* sub-agent is built or run, nothing is sent, and ParallelRun returns no
\* results and one error.
MismatchStartsNothing ==
    Len(scenarios) # Len(expectedOutcomes) =>
        /\ mainPc \in {"entry", "returned"}
        /\ started = 0
        /\ waiting = 0
        /\ DOMAIN subAgents = {}
        /\ jobs = <<>>
        /\ \A i \in 1..Len(runLog) : runLog[i] = <<>>
        /\ mainPc = "returned" =>
              /\ parRet.results = <<>>
              /\ Len(parRet.errs) = 1
              /\ parRet.errs[1] # NIL

\* C17 witness: a call with some scenarios and one expected outcome more has
\* returned
MismatchReturned ==
    /\ mainPc = "returned"
    /\ Len(scenarios) > 0
    /\ Len(expectedOutcomes) = Len(scenarios) + 1

\* C18: every sub-agent starts from TurnCount 0, empty History, Fulfilled
\* false and MaxTurns 10 whatever the state of the agent ParallelRun is
\* called on; no step changes that agent's state, and no step changes the
\* state of a sub-agent whose run goes on.
FreshAndSeparateStates ==
    [][ /\ parentState' = parentState
        /\ \A i \in DOMAIN subAgents' \ DOMAIN subAgents :
              /\ subAgents'[i].State = FreshState
              /\ runLog'[i][Len(runLog'[i])].initial = FreshState
        /\ \A i \in DOMAIN subAgents' \cap DOMAIN subAgents :
              subAgents'[i] = subAgents[i]
        /\ \A i \in DOMAIN subAgents \ DOMAIN subAgents' :
              runLog'[i][Len(runLog'[i])].returned.state # NilState =>
                 runLog'[i][Len(runLog'[i])].returned.state.State =
                    [FreshState EXCEPT !.TurnCount = 10] ]_vars

\* C18 witness: two runs are in progress in a call on an agent whose own
\* state has a turn on record and is fulfilled
TwoRunsUnderUsedParent ==
    /\ Cardinality(DOMAIN subAgents) >= 2
    /\ parentState.Fulfilled
    /\ parentState.TurnCount > 0
    /\ \A i \in DOMAIN subAgents : subAgents[i].State = FreshState

(***************************************************************************)
(* Properties of the goroutines that call Run.                             *)
(***************************************************************************)
\* C14: a failing run never brings the process down: whatever Run returns
\* to the goroutine of a handler, no panic ends the server process.
NoPanicEscapes == process = "up"

(***************************************************************************)
(* Properties of the generation clients.                                   *)
(***************************************************************************)
\* C19: when the backend answers the first request with 429, 500, 502, 503
\* or 504 and would answer 200 to every later one, each client sends a
\* second request and the call returns a successful result.
RetriableStatusRetried ==
    ( /\ cPc = "returned"
      /\ ~ctxDone
      /\ Len(requests) >= 1
      /\ requests[1].status \in {429, 500, 502, 503, 504}
      /\ \A k \in 2..Len(requests) :
            /\ requests[k].status = 200
            /\ requests[k].body = [raw |-> "json",
                                   candidates |-> << [raw |-> "object", has |-> OutputFields] >>] )
    => /\ Len(requests) = 2
       /\ cRet.ok

\* C20: a request that fails in the transport, whatever the failure, is
\* followed by another request as long as fewer than 3 have been made.
TransportErrorRetried ==
    (cPc = "returned" /\ ~ctxDone) =>
        \A k \in 1..Len(requests) :
            (requests[k].cause # NIL /\ k < 3) => Len(requests) > k

\* the call is over: it has returned, or its goroutine has panicked
CallEnded == cPc \in {"returned", "panic"}

\* bodies that do not hold one candidate whose text is a JSON object
MalformedBodies ==
    { b \in Bodies : b.raw # "json" \/ b.candidates = <<>> \/ b.candidates[1].raw # "object" }

\* C21: a call whose first request is answered with 400, 401, 403 or 404, or
\* with 200 and a body that is not an envelope with one JSON object as its
\* text, ends without a result after that one request: client.Do is called
\* once and no second request is sent.
ClientErrorNotRetried ==
    ( /\ CallEnded
      /\ Len(requests) >= 1
      /\ \/ requests[1].status \in {400, 401, 403, 404}
         \/ requests[1].status = 200 /\ requests[1].body \in MalformedBodies )
    => /\ Len(requests) = 1
       /\ doCalls = 1
       /\ ~cRet.ok

\* C21 witness: the OpenAI client, which retries some statuses, has returned
\* an error after one request answered with 200 and a text that is not JSON
MalformedReplyReturned ==
    /\ cPc = "returned"
    /\ client = "openai"
    /\ ~ctxDone
    /\ Len(requests) = 1
    /\ requests[1].status = 200
    /\ requests[1].body.candidates # <<>>
    /\ requests[1].body.candidates[1].raw = "not json"
    /\ ~cRet.ok

\* the error says that the deadline of the call has passed
IsDeadlineError(e) ==
    /\ ~e.ok
    /\ \/ e.wraps \in {CtxCause, ErrorString(CtxCause)}
       \/ e.err = "OpenAI operation cancelled or timed out"

\* C22: once the deadline of ctx has passed, at whatever point of the loop
\* after the first attempt (a backoff wait included), the call starts no
\* further attempt, that is, it does not call client.Do again, and a call
\* that returns without a response in hand returns a deadline error.
NoAttemptAfterDeadline ==
    [][ /\ (ctxDone /\ doCalls >= 1) => doCalls' = doCalls
        /\ (cPc' = "returned" /\ cPc # "returned" /\ ctxDone /\ resp' = NoResp)
              => IsDeadlineError(cRet') ]_vars

\* C23: whatever the backend answers, a generation call or a judgment call
\* calls client.Do at most 3 times and sends at most 3 requests.
AtMostThreeAttempts ==
    /\ doCalls <= 3
    /\ Len(requests) <= 3

\* C23 witness: a call has returned after three requests that all failed
ThreeAttemptsMade ==
    /\ cPc = "returned"
    /\ doCalls = 3
    /\ Len(requests) = 3
    /\ ~cRet.ok

\* C24: a call that ends on a 200 reply whose body is an empty payload or an
\* envelope without candidates has returned an error to its caller.
EmptyReplyIsAnError ==
    ( /\ CallEnded
      /\ resp # NoResp
      /\ resp.status = 200
      /\ \/ resp.body.raw = ""
         \/ resp.body.raw = "json" /\ resp.body.candidates = <<>> )
    => /\ cPc = "returned"
       /\ ~cRet.ok
       /\ cRet.err # NIL

\* C25: a call that returns on a 200 reply whose text is a JSON object
\* lacking a required field returns an error: no output with the field at
\* its zero value reaches the caller.
MissingFieldIsRejected ==
    ( /\ cPc = "returned"
      /\ resp # NoResp
      /\ resp.status = 200
      /\ resp.body.raw = "json"
      /\ resp.body.candidates # <<>>
      /\ resp.body.candidates[1].raw = "object"
      /\ resp.body.candidates[1].has # OutputFields )
    => ~cRet.ok

\* the call of the Knovvu client has returned
KnovvuReturned == kPc \in {"returned", "done"}

\* C26: when the client id or the client secret is not configured, GetKnovvuToken
\* returns an error and no request is ever handed to the HTTP client.
MissingConfigSendsNothing ==
    (kCall = "GetKnovvuToken" /\ (kConfig.client_id = "" \/ kConfig.client_secret = ""))
        => /\ kSent = <<>>
           /\ kPc \in {"entry", "returned", "done"}
           /\ KnovvuReturned => (kRet.err # NIL /\ kRet.token = "")

MissingSecretReturned ==
    /\ kCall = "GetKnovvuToken"
    /\ kConfig = [loads |-> TRUE, client_id |-> "id", client_secret |-> ""]
    /\ kPc = "done"
    /\ kRet.err = "client_id or client_secret not set in .env"
    /\ kSent = <<>>
    /\ kRun.failed

\* the request failed in a way the generation clients retry
TransientReply(reply) == reply.cause # NIL \/ reply.status \in {429, 500, 502, 503, 504}

\* C27: a call of the Knovvu client whose request fails transiently (transport
\* error or 429/500/502/503/504) does not return before the attempt budget is
\* used up.
KnovvuTransientRetried ==
    (KnovvuReturned /\ kSent # <<>> /\ TransientReply(kReply)) => Len(kSent) = maxRetries

\* the body of a reply does not decode to a KnovvuResponse
Unparsed(reply) == reply.body.raw \in {"", "<html>", "[]"}

\* C28: a 2xx reply to SendKnovvuMessage whose body does not parse is returned as an
\* error and ends the run; a run that went on with a text other than the reply's
\* own text had a reply that parsed and whose text is empty.
UnparsedReplyFailsRun ==
    (kCall = "SendKnovvuMessage" /\ kPc = "done" /\ kReply.cause = NIL
        /\ kReply.status \in 200..299)
        => /\ Unparsed(kReply) => (kRet.err # NIL /\ kRet.resp = NilResponse /\ kRun.failed)
           /\ ~Unparsed(kReply) =>
                  /\ ~kRun.failed
                  /\ kRet.resp.Text # "" => kRun.vaResponse = kRet.resp.Text

UnparsedReplyFailedRun ==
    /\ kCall = "SendKnovvuMessage"
    /\ kPc = "done"
    /\ kReply.cause = NIL
    /\ kReply.status = 200
    /\ kReply.body.raw = "<html>"
    /\ kRet.err = "failed to parse successful response"
    /\ kRun.failed

\* a hero card with at least one button
UsableCard(att) ==
    att.isMap /\ att.contentType = HeroCard /\ att.contentOk /\ Len(att.buttons) > 0

\* the positions of the hero cards with buttons among the attachments
UsableCards(attachments) == { i \in 1..Len(attachments) : UsableCard(attachments[i]) }

\* the first hero card with buttons
FirstUsableCard(attachments) ==
    attachments[CHOOSE i \in UsableCards(attachments) :
                    \A j \in UsableCards(attachments) : i <= j]

IsObject(btn) == btn.isMap

\* one line per button that is an object, in order
OptionLines(buttons) ==
    LET objs == SelectSeq(buttons, IsObject)
    IN  Join([i \in 1..Len(objs) |->
                 "  - " \o objs[i].title \o " (value: " \o objs[i].value \o ")"], "\n")

\* Agent.Run has recorded a reply text for a reply of SendKnovvuMessage
ReplyTextRecorded ==
    kCall = "SendKnovvuMessage" /\ kPc = "done" /\ ~kRun.failed

\* C29 (as stated): the recorded reply text is the reply's text when non-empty;
\* otherwise, for a hero card with buttons, a "Prompt: <prompt>" line, an
\* "Options:" line and one line per button; otherwise the sentinel.
ReplyTextWithPromptLine ==
    ReplyTextRecorded =>
        kRun.vaResponse =
            IF kRet.resp.Text # "" THEN kRet.resp.Text
            ELSE IF UsableCards(kRet.resp.Attachments) # {}
            THEN LET card == FirstUsableCard(kRet.resp.Attachments)
                 IN  "Prompt: " \o card.text \o "\n" \o "Options:\n"
                         \o OptionLines(card.buttons)
            ELSE "No response text found."

\* C29 (amended): as above, but the "Prompt:" line is present only when the card's
\* prompt is non-empty, and only the buttons that are objects give a line.
ReplyTextFlattened ==
    ReplyTextRecorded =>
        kRun.vaResponse =
            IF kRet.resp.Text # "" THEN kRet.resp.Text
            ELSE IF UsableCards(kRet.resp.Attachments) # {}
            THEN LET card == FirstUsableCard(kRet.resp.Attachments)
                 IN  (IF card.text # "" THEN "Prompt: " \o card.text \o "\n" ELSE "")
                         \o "Options:\n" \o OptionLines(card.buttons)
            ELSE "No response text found."

CardWithoutPromptFlattened ==
    /\ ReplyTextRecorded
    /\ kRet.resp = [Text |-> "", Attachments |-> << OtherCard, NoPromptCard >>]
    /\ kRun.vaResponse = "Options:\n  - A (value: a)\n  - B (value: b)"

\* the positions of the SendKnovvuMessage calls in a trace
Sends(cs) == { i \in 1..Len(cs) : cs[i].op = "send" }

\* the positions of the GetKnovvuToken calls in a trace
TokenCalls(cs) == { i \in 1..Len(cs) : cs[i].op = "token" }

\* C30: within one run the token and the conversation id are obtained once, at the
\* start, never change afterwards, and every SendKnovvuMessage call carries them.
OneSessionPerRun ==
    [][ /\ pc # "start" => (knovvuToken' = knovvuToken /\ conversationID' = conversationID)
        /\ Cardinality(TokenCalls(calls')) <= 1
        /\ TokenCalls(calls') \subseteq {1}
        /\ \A i \in Sends(calls') :
               /\ calls'[i].session = [token |-> knovvuToken',
                                       conversationID |-> conversationID']
               /\ calls'[i].session.token \in Tokens
               /\ calls'[i].session.conversationID \in UUIDs ]_vars

TwoSendsInOneSession ==
    /\ pc = "done"
    /\ Cardinality(Sends(calls)) = 2
    /\ \A i \in Sends(calls) :
           calls[i].session = [token |-> "token-2", conversationID |-> "uuid-b"]
    /\ knovvuToken = "token-2"
    /\ conversationID = "uuid-b"

\* the generation calls of the trace, in the order they were made
GenerateCalls == SelectSeq(calls, LAMBDA c : c.op = "generate")

\* the History items of the run that were appended in a turn before k
HistoryBefore(k) == SelectSeq(State.History, LAMBDA h : h.Turn < k)

\* C35: the request of the k-th generation call of a run carries TurnCount = k,
\* Fulfilled = FALSE and exactly the History items appended in the turns before k.
RequestSnapshotsState ==
    \A k \in 1..Len(GenerateCalls) :
        LET req == GenerateCalls[k].input.CurrentState
        IN  /\ req.TurnCount = k
            /\ req.Fulfilled = FALSE
            /\ req.History = HistoryBefore(k)
            /\ req.MaxTurns = State.MaxTurns

ThirdRequestAfterGap ==
    /\ pc = "done"
    /\ Len(GenerateCalls) = 3
    /\ Len(GenerateCalls[3].input.CurrentState.History) = 1
    /\ GenerateCalls[3].input.CurrentState.History[1].Turn = 2
    /\ Len(State.History) = 2

\* C37: at every point of a run, History has at most TurnCount items, every
\* item's Turn lies in 1..TurnCount and is greater than the Turn of the item
\* before it.
HistoryTurnsBounded ==
    /\ Len(State.History) <= State.TurnCount
    /\ \A i \in 1..Len(State.History) :
           /\ State.History[i].Turn >= 1
           /\ State.History[i].Turn <= State.TurnCount
           /\ i > 1 => State.History[i].Turn > State.History[i - 1].Turn

HistoryShorterThanTurnCount ==
    /\ pc = "send"
    /\ State.TurnCount = 3
    /\ Len(State.History) = 1
    /\ State.History[1].Turn = 2

\* C38: no request of SendKnovvuMessage carries an empty text.
NoEmptyTextSent ==
    \A i \in 1..Len(kSent) :
        kSent[i].call = "SendKnovvuMessage" => kSent[i].text # ""

\* C31: the variants are interchangeable: whichever one a run uses, its judgment
\* call reaches a backend, so that a run never fails after the turn loop only
\* because of the variant it was given.
JudgmentInEveryVariant ==
    \A i \in CallsOf("judge") : calls[i].text # "not implemented"

\* C32: the status stored for a scenario whose run returned without error is the
\* verdict of the Judgment, whatever the fulfilled flag of the final state is.
VerdictIsReported ==
    (hPc = "done" /\ ret.err = NIL /\ ~stopped) =>
        (scenarioStatus = ret.judgement /\ storedStatus = ret.judgement)

\* C34: a test run set to "running" is eventually "completed" or "failed", and a
\* scenario set to "Running" eventually leaves that status, also when Run fails.
RunningIsSettled ==
    <>(runStatus \in {"completed", "failed"} /\ storedStatus # "Running")

\* C39: the budget of a run started by a handler is the stored max_interactions.
BudgetIsStoredValue ==
    handler \in Handlers => State.MaxTurns = maxInteractions

\* C40: once StopScenarioHandler has stored "Error" during the run, the stored
\* status stays "Error".
StopIsFinal ==
    (handler = "ScenarioRunHandler" /\ stopped) => storedStatus = "Error"

\* C33: every request a client sends to its backend has the field temperature,
\* with the value zero.
TemperatureZeroSent ==
    \A i \in 1..Len(requests) :
        /\ "temperature" \in requests[i].sent.fields
        /\ requests[i].sent.temperature = 0

\* C36: ParallelRun returns for every number of scenarios, and from some point on
\* it has returned, no worker is blocked or running, and every started worker has
\* exited.
ParallelRunReturnsAndDrains ==
    <>[](/\ mainPc = "returned"
         /\ exited = started
         /\ waiting = 0
         /\ DOMAIN subAgents = {}
         /\ jobs = <<>>
         /\ resCh = <<>>)

SixScenariosAllWorkersExited ==
    /\ mainPc = "returned"
    /\ Len(scenarios) = 6
    /\ started = 5
    /\ exited = 5
    /\ collected = 6

====
